---- MODULE Spec2Model ----
(***************************************************************************)
(* Model of spi_25lc512x.c: the BeagleBone test program for a Microchip    *)
(* 25LC512 SPI EEPROM.  The program state is the C globals (tx, rx,        *)
(* status), main's locals (page, len, data, data_read, spi_dev), the       *)
(* position of control (pc, ret) and the return value of the last driver   *)
(* call (rv).  The EEPROM on the other end of the bus is the environment:  *)
(* its array (mem), write-enable latch (wel) and busy time (busy).         *)
(* Every action is one transport call of the code together with the local  *)
(* computation around it.                                                  *)
(*                                                                         *)
(* Spec     : a run of main() against the device.                          *)
(* SpecDrv  : the driver functions erase_device, write_page and read_page  *)
(*            called in any order with arguments drawn from small sets.    *)
(***************************************************************************)
EXTENDS Integers, Sequences, FiniteSets

(* ------------------------------------------------------------------ *)
(* Program constants (the #defines of the source, in decimal)          *)
(* ------------------------------------------------------------------ *)
EEPROM_DEVICE_ID == 41
EEPROM_SIZE == 65536
EEPROM_PAGE_SIZE == 128
EEPROM_NUM_PAGES == EEPROM_SIZE \div EEPROM_PAGE_SIZE
WREN == 6
WRITE == 2
READ == 3
CE == 199
RDSR == 5
RDID == 171
DPD == 185
EXIT_SUCCESS == 0
EXIT_FAILURE == 1

\* (variant) the buffers sized for a page, without room for the header
BufLenNoHeader == EEPROM_PAGE_SIZE
\* static uint8_t tx[EEPROM_PAGE_SIZE+3], rx[EEPROM_PAGE_SIZE+3]
BufLen == EEPROM_PAGE_SIZE + 3
U8(x) == x % 256
U16(x) == x % 65536

(* ------------------------------------------------------------------ *)
(* Bounds of the model                                                  *)
(* ------------------------------------------------------------------ *)
\* longest time, in status polls, the device stays busy after a write or erase
MaxBusyPolls == 2
\* number of READ transfers of one run of main the bus may corrupt
MaxFaults == 2
\* number of driver calls of one behaviour of SpecDrv
MaxCalls == 2

\* signature bytes the attached device may answer RDID with
IdBytes == {EEPROM_DEVICE_ID, 0, 255}
\* positions of a READ payload the bus may corrupt
FaultIdx == {0, EEPROM_PAGE_SIZE - 1}
\* arguments of the driver calls of SpecDrv
DrvPages == {0, EEPROM_NUM_PAGES - 1}
DrvWriteLens == {0, 1, EEPROM_PAGE_SIZE, EEPROM_PAGE_SIZE + 1}
DrvReadLens == {1, EEPROM_PAGE_SIZE}

VARIABLES
  pc, ret, rv,                 \* control position, return position, return value
  spi_dev, exitCode,           \* the SPI handle, main's exit status
  tx, rx, status,              \* the static globals
  page, len, data, data_read,  \* main's locals (the caller's arguments)
  page_address,                \* the callee's page_address parameter
  mem, wel, busy,              \* the device: array, write-enable latch, busy time
  faults,                      \* READ transfers the bus may still corrupt
  wire, prevOp, sentOps,       \* the last frame, the opcode before it, all opcodes
  xfers,                       \* transport calls of the last step
  latched,                     \* the latch as the last CE or WRITE frame found it
  polls,                       \* status reads in a row, up to the last frame
  slept, gap,                  \* nanosleep since the last frame; between the last two
  frames,                      \* how many frames of each command have been sent
  idByte, verifyByte, miscompares, \* what main saw and printed
  calls, lastCall, prevCall, memAtCall, expect  \* bookkeeping of SpecDrv

progVars == <<pc, ret, rv, spi_dev, exitCode, tx, rx, status, page, len, data,
              data_read, page_address>>
devVars == <<mem, wel, busy>>
busVars == <<wire, prevOp, sentOps, xfers, latched, polls, slept, gap,
             frames>>
mainObs == <<idByte, verifyByte, miscompares>>
drvObs == <<calls, lastCall, prevCall, memAtCall, expect>>
vars == <<progVars, devVars, faults, busVars, mainObs, drvObs>>

(* ------------------------------------------------------------------ *)
(* Buffers                                                              *)
(* ------------------------------------------------------------------ *)
ZeroBuf == [i \in 0..(BufLen - 1) |-> 0]
\* main's initialisation loop: data[i] = i
Pattern == [i \in 0..(EEPROM_PAGE_SIZE - 1) |-> U8(i)]
AltData == [i \in 0..(EEPROM_PAGE_SIZE - 1) |-> U8(255 - 2 * i)]
ZeroData == [i \in 0..(EEPROM_PAGE_SIZE - 1) |-> 0]
\* the first n bytes of a buffer, as they go over the bus
Frame(buf, n) == [k \in 1..n |-> buf[k - 1]]
NoOp == 0 - 1

(* ------------------------------------------------------------------ *)
(* The device (25LC512).  Its array is held page by page, as the map    *)
(* from each page content present to the set of pages that hold it.     *)
(* ------------------------------------------------------------------ *)
AllPages == 0..(EEPROM_NUM_PAGES - 1)
UniformPage(b) == [i \in 0..(EEPROM_PAGE_SIZE - 1) |-> b]
ErasedPage == UniformPage(255)
ErasedMem == [c \in {ErasedPage} |-> AllPages]
\* the content of page p, and the byte at address a
DevPage(m, p) == CHOOSE c \in DOMAIN m : p \in m[c]
DevAt(m, a) == DevPage(m, a \div EEPROM_PAGE_SIZE)[a % EEPROM_PAGE_SIZE]
\* the array with the content of page p replaced by c
DevStore(m, p, c) ==
  LET rest == {d \in DOMAIN m : d # c /\ m[d] # {p}}
  IN [d \in rest \cup {c} |->
        IF d = c THEN (IF c \in DOMAIN m THEN m[c] ELSE {}) \cup {p}
        ELSE m[d] \ {p}]
\* the address a READ or WRITE frame carries: two bytes, high byte first
FrameAddr(f) == f[2] * 256 + f[3]
\* a page write: the bytes go to consecutive addresses and wrap inside the page
DevProgram(m, f) ==
  LET a == FrameAddr(f)
      p == a \div EEPROM_PAGE_SIZE
      o == a % EEPROM_PAGE_SIZE
      n == Len(f) - 3
      old == DevPage(m, p)
      new == [i \in 0..(EEPROM_PAGE_SIZE - 1) |->
                LET k == (i - o + EEPROM_PAGE_SIZE) % EEPROM_PAGE_SIZE
                IN IF k < n THEN f[k + 4] ELSE old[i]]
  IN DevStore(m, p, new)
\* the status register: bit 0 busy, bit 1 write-enable latch
DevStatus(w, b) == (IF b > 0 THEN 1 ELSE 0) + (IF w \/ b > 0 THEN 2 ELSE 0)
\* the device after a frame; bz is how long a write or erase it starts will take
DevAfter(m, w, b, f, bz) ==
  LET op == f[1] IN
  IF op = RDSR THEN [mem |-> m, wel |-> w, busy |-> IF b > 0 THEN b - 1 ELSE 0]
  ELSE IF b > 0 THEN [mem |-> m, wel |-> w, busy |-> b]
  ELSE IF op = WREN THEN [mem |-> m, wel |-> TRUE, busy |-> b]
  ELSE IF op = CE /\ w THEN [mem |-> ErasedMem, wel |-> FALSE, busy |-> bz]
  ELSE IF op = WRITE /\ w /\ Len(f) > 3
       THEN [mem |-> DevProgram(m, f), wel |-> FALSE, busy |-> bz]
  ELSE [mem |-> m, wel |-> w, busy |-> b]
\* the byte the device drives while byte k (from 0) of the frame in buf is
\* clocked: the status after RDSR, the signature after RDID and its three
\* dummy bytes, the array from the address on after READ
DevReply(m, w, b, buf, id, k) ==
  IF buf[0] = RDSR THEN (IF k = 1 THEN DevStatus(w, b) ELSE 0)
  ELSE IF b > 0 THEN 0
  ELSE IF buf[0] = RDID THEN (IF k = 3 THEN id ELSE 0)
  ELSE IF buf[0] = READ
       THEN (IF k >= 3 THEN DevAt(m, U16(buf[1] * 256 + buf[2] + k - 3)) ELSE 0)
  ELSE 0

(* ------------------------------------------------------------------ *)
(* The transport: libsoc_spi_write and libsoc_spi_rw                    *)
(* ------------------------------------------------------------------ *)
\* the commands of the test sequence: every opcode but WREN and RDSR
Commands == {RDID, CE, READ, WRITE, DPD}
OnBus(f) ==
  /\ wire' = f
  /\ prevOp' = IF Len(wire) = 0 THEN NoOp ELSE wire[1]
  /\ sentOps' = sentOps \cup {f[1]}
  /\ xfers' = 1
  /\ latched' = IF f[1] \in {CE, WRITE} THEN wel /\ busy = 0 ELSE latched
  /\ polls' = IF f[1] = RDSR THEN polls + 1 ELSE 0
  /\ gap' = slept
  /\ frames' = IF f[1] \in Commands THEN [frames EXCEPT ![f[1]] = @ + 1]
                ELSE frames
NoBus ==
  /\ xfers' = 0
  /\ UNCHANGED <<wire, prevOp, sentOps, latched, polls, slept, gap, frames>>
\* (variant) the delay after the frame left out
no_delay == slept' = FALSE
\* nanosleep(&time, NULL) after the frame of an erase or a write
nanosleep == slept' = TRUE
\* a transport call that returns to code that does not sleep
no_sleep == slept' = FALSE
libsoc_spi_write(buf, n, bz) ==
  \E f \in {Frame(buf, n)} :
  \E d \in {DevAfter(mem, wel, busy, f, bz)} :
     /\ OnBus(f)
     /\ mem' = d.mem /\ wel' = d.wel /\ busy' = d.busy
\* the bytes received, before any corruption on the bus
Received(buf, n, id) ==
  [i \in 0..(BufLen - 1) |->
     IF i < n THEN DevReply(mem, wel, busy, buf, id, i) ELSE rx[i]]
libsoc_spi_rw(buf, n, got) ==
  \E f \in {Frame(buf, n)} :
  \E d \in {DevAfter(mem, wel, busy, f, 0)} :
     /\ OnBus(f)
     /\ rx' = got
     /\ mem' = d.mem /\ wel' = d.wel /\ busy' = d.busy

(* ------------------------------------------------------------------ *)
(* Pure steps of the driver                                             *)
(* ------------------------------------------------------------------ *)
\* page_address = page_address * EEPROM_PAGE_SIZE, stored in a uint16_t
PageOffset(p) == U16(p * EEPROM_PAGE_SIZE)
\* (variant) the high address byte taken without the shift
AddrHiNoShift(a) == U8(a)
\* tx[1] = (page_address >> 8); tx[2] = page_address
AddrHi(a) == U8(a \div 256)
AddrLo(a) == U8(a)
\* (variant) the length tested against the size of the frame buffer
TooLongForFrame(n) == n > BufLen
\* if (len > EEPROM_PAGE_SIZE)
TooLong(n) == n > EEPROM_PAGE_SIZE
\* (variant) the loop condition with the mask of another status bit
StillBusyBit4(s) == (s \div 16) % 2 = 1
\* while (status & 0x1)
StillBusy(s) == s % 2 = 1
\* (variant) the write-disable opcode 0x04 in place of write-enable
WrdiBuf(t) == [t EXCEPT ![0] = 4]
\* tx after set_write_enable has filled it
WrenBuf(t) == [t EXCEPT ![0] = WREN]
\* (variant) the sector-erase opcode 0xd8 in place of chip-erase
SectorEraseBuf(t) == [t EXCEPT ![0] = 216]
\* tx after erase_device has filled it
EraseBuf(t) == [t EXCEPT ![0] = CE]
\* (variant) the copy loop of write_page stopping one byte early
WriteBufShort(t, a, d, n) ==
  [i \in 0..(BufLen - 1) |->
     IF i = 0 THEN WRITE
     ELSE IF i = 1 THEN AddrHi(a)
     ELSE IF i = 2 THEN AddrLo(a)
     ELSE IF i < n + 2 THEN d[i - 3]
     ELSE t[i]]
\* tx after write_page has filled it: opcode, address, then data[0..n-1]
WriteBuf(t, a, d, n) ==
  [i \in 0..(BufLen - 1) |->
     IF i = 0 THEN WRITE
     ELSE IF i = 1 THEN AddrHi(a)
     ELSE IF i = 2 THEN AddrLo(a)
     ELSE IF i < n + 3 THEN d[i - 3]
     ELSE t[i]]
\* (variant) the whole transmit buffer sent, whatever the payload length
WholeBuffer(n) == BufLen
\* the length write_page passes to libsoc_spi_write: len+3
WriteLen(n) == n + 3
\* the length read_page passes to libsoc_spi_rw: len+3
ReadLen(n) == n + 3
\* (variant) read_page framing its request with the WRITE opcode
ReadBufAsWrite(t, a) ==
  [t EXCEPT ![0] = WRITE, ![1] = AddrHi(a), ![2] = AddrLo(a)]
\* tx after read_page has filled it
ReadBuf(t, a) == [t EXCEPT ![0] = READ, ![1] = AddrHi(a), ![2] = AddrLo(a)]
\* tx after read_status_register has filled it
StatusBuf(t) == [t EXCEPT ![0] = RDSR, ![1] = 0]
\* (variant) the copy loop of read_page starting one byte early in rx
CopyOutShifted(d, r, n) ==
  [i \in 0..(EEPROM_PAGE_SIZE - 1) |-> IF i < n THEN r[i + 2] ELSE d[i]]
\* data after read_page has copied rx[3..n+2] into it
CopyOut(d, r, n) ==
  [i \in 0..(EEPROM_PAGE_SIZE - 1) |-> IF i < n THEN r[i + 3] ELSE d[i]]
\* the number of "Data Miscompare Error" lines one pass of the compare loop prints
Mismatches(d, r, n) == Cardinality({i \in 0..(n - 1) : d[i] # r[i]})

(* ------------------------------------------------------------------ *)
(* read_status_register, as one pass of a busy-poll loop                *)
(* ------------------------------------------------------------------ *)
PollStatus ==
  \E t \in {StatusBuf(tx)} :
  \E got \in {Received(t, 2, 0)} :
     /\ tx' = t
     /\ libsoc_spi_rw(t, 2, got)
     /\ no_sleep
     /\ status' = got[1]
     /\ IF StillBusy(got[1])
        THEN pc' = pc /\ UNCHANGED rv
        ELSE pc' = ret /\ rv' = EXIT_SUCCESS
     /\ UNCHANGED <<ret, spi_dev, exitCode, page, len, data, data_read,
                    page_address, faults, mainObs, drvObs>>

(* ------------------------------------------------------------------ *)
(* erase_device                                                         *)
(* ------------------------------------------------------------------ *)
EraseBegin ==
  /\ pc = "er_wren"
  /\ tx' = WrenBuf(tx)
  /\ libsoc_spi_write(tx', 1, 0)
  /\ no_sleep
  /\ pc' = "er_send"
  /\ UNCHANGED <<ret, rv, spi_dev, exitCode, rx, status, page, len, data,
                 data_read, page_address, faults, mainObs, drvObs>>

EraseSend ==
  /\ pc = "er_send"
  /\ tx' = EraseBuf(tx)
  /\ \E bz \in 0..MaxBusyPolls : libsoc_spi_write(tx', 1, bz)
  /\ nanosleep
  /\ pc' = "er_poll"
  /\ UNCHANGED <<ret, rv, spi_dev, exitCode, rx, status, page, len, data,
                 data_read, page_address, faults, mainObs, drvObs>>

ErasePoll ==
  /\ pc = "er_poll"
  /\ PollStatus

(* ------------------------------------------------------------------ *)
(* write_page                                                           *)
(* ------------------------------------------------------------------ *)
WriteBegin ==
  /\ pc = "wp_begin"
  /\ IF TooLong(len)
     THEN /\ rv' = EXIT_FAILURE
          /\ pc' = ret
          /\ NoBus
          /\ UNCHANGED <<tx, page_address, devVars>>
     ELSE /\ tx' = WrenBuf(tx)
          /\ libsoc_spi_write(tx', 1, 0)
          /\ no_sleep
          /\ page_address' = page
          /\ pc' = "wp_send"
          /\ UNCHANGED rv
  /\ UNCHANGED <<ret, spi_dev, exitCode, rx, status, page, len, data,
                 data_read, faults, mainObs, drvObs>>

WriteSend ==
  /\ pc = "wp_send"
  /\ page_address' = PageOffset(page_address)
  /\ tx' = WriteBuf(tx, page_address', data, len)
  /\ \E bz \in 0..MaxBusyPolls : libsoc_spi_write(tx', WriteLen(len), bz)
  /\ nanosleep
  /\ pc' = "wp_poll"
  /\ UNCHANGED <<ret, rv, spi_dev, exitCode, rx, status, page, len, data,
                 data_read, faults, mainObs, drvObs>>

WritePoll ==
  /\ pc = "wp_poll"
  /\ PollStatus

(* ------------------------------------------------------------------ *)
(* read_page                                                            *)
(* ------------------------------------------------------------------ *)
\* what a READ transfer may deliver: the device's bytes, or, while the bus
\* may still corrupt a transfer, those bytes with one payload byte inverted
Deliveries(good, n) ==
  {[bad |-> 0, bytes |-> good]} \cup
  {[bad |-> 1, bytes |-> [good EXCEPT ![k + 3] = 255 - @]] :
     k \in {j \in FaultIdx : j < n /\ faults > 0}}

ReadPage ==
  /\ pc = "rp"
  /\ page_address' = PageOffset(page)
  /\ tx' = ReadBuf(tx, page_address')
  /\ \E dl \in Deliveries(Received(tx', ReadLen(len), 0), len) :
        /\ libsoc_spi_rw(tx', ReadLen(len), dl.bytes)
        /\ no_sleep
        /\ faults' = faults - dl.bad
  /\ data_read' = CopyOut(data_read, rx', len)
  /\ rv' = EXIT_SUCCESS
  /\ pc' = ret
  /\ UNCHANGED <<ret, spi_dev, exitCode, status, page, len, data,
                 mainObs, drvObs>>

(* ------------------------------------------------------------------ *)
(* release_pwrdwn_read_sig and set_deep_power_down                      *)
(* ------------------------------------------------------------------ *)
SigBuf(t) == [t EXCEPT ![0] = RDID, ![1] = 0, ![2] = 0, ![3] = 0]
DpdBuf(t) == [t EXCEPT ![0] = DPD]
set_deep_power_down ==
  /\ tx' = DpdBuf(tx)
  /\ libsoc_spi_write(tx', 1, 0)
  /\ no_sleep

(* ------------------------------------------------------------------ *)
(* main                                                                 *)
(* ------------------------------------------------------------------ *)
\* (variant) any non-zero signature accepted
AnyDevice(s) == s # 0
\* if (status == EEPROM_DEVICE_ID)
RightDevice(s) == s = EEPROM_DEVICE_ID
\* (variant) the erased value taken to be 0x00
NotZero(b) == b # 0
\* if (data_read[0] != 0xFF)
NotErased(b) == b # 255
\* (variant) the loop bound taken inclusive
MorePagesInclusive(p) == p <= EEPROM_NUM_PAGES
\* page < EEPROM_NUM_PAGES
MorePages(p) == p < EEPROM_NUM_PAGES
\* (variant) a run that printed a miscompare ends with EXIT_FAILURE
FailOnMiscompare(miscompared) == IF miscompared THEN EXIT_FAILURE ELSE EXIT_SUCCESS
\* the exit status of a run whose readback is over, whatever it printed
CompletedStatus(miscompared) == EXIT_SUCCESS

\* (variant) main returning without releasing the handle
handle_kept == spi_dev' = spi_dev
\* libsoc_spi_free(spi_dev): an open handle is released; a handle that is
\* not open must not be passed
libsoc_spi_free == spi_dev' = IF spi_dev = "open" THEN "freed" ELSE "misused"

\* libsoc_spi_init, the bus settings, len and the data pattern
MainInit ==
  /\ pc = "m_init"
  /\ \E ok \in BOOLEAN :
        IF ok
        THEN /\ spi_dev' = "open"
             /\ len' = EEPROM_PAGE_SIZE
             /\ data' = Pattern
             /\ pc' = "m_rdid"
             /\ UNCHANGED exitCode
        ELSE /\ spi_dev' = "null"
             /\ exitCode' = EXIT_FAILURE
             /\ pc' = "done"
             /\ UNCHANGED <<len, data>>
  /\ NoBus
  /\ UNCHANGED <<ret, rv, tx, rx, status, page, data_read, page_address,
                 devVars, faults, mainObs, drvObs>>

\* status = release_pwrdwn_read_sig(spi_dev) and the test of the signature
MainIdentify ==
  /\ pc = "m_rdid"
  /\ tx' = SigBuf(tx)
  /\ \E id \in IdBytes : libsoc_spi_rw(tx', 4, Received(tx', 4, id))
  /\ no_sleep
  /\ status' = rx'[3]
  /\ idByte' = status'
  /\ IF RightDevice(status')
     THEN pc' = "er_wren" /\ ret' = "m_verify"
     ELSE pc' = "m_wrong" /\ UNCHANGED ret
  /\ UNCHANGED <<rv, spi_dev, exitCode, page, len, data, data_read,
                 page_address, faults, verifyByte, miscompares, drvObs>>

\* page = 0; len = 1; read_page(spi_dev, page, data_read, len)
MainVerify ==
  /\ pc = "m_verify"
  /\ page' = 0
  /\ len' = 1
  /\ pc' = "rp"
  /\ ret' = "m_vcheck"
  /\ NoBus
  /\ UNCHANGED <<rv, spi_dev, exitCode, tx, rx, status, data, data_read,
                 page_address, devVars, faults, mainObs, drvObs>>

\* the test of page 0, byte 0 after the erase
MainVerifyCheck ==
  /\ pc = "m_vcheck"
  /\ verifyByte' = data_read[0]
  /\ IF NotErased(data_read[0])
     THEN /\ libsoc_spi_free
          /\ exitCode' = EXIT_FAILURE
          /\ pc' = "done"
          /\ UNCHANGED <<page, len>>
     ELSE /\ len' = EEPROM_PAGE_SIZE
          /\ page' = 0
          /\ pc' = "m_wloop"
          /\ UNCHANGED <<spi_dev, exitCode>>
  /\ NoBus
  /\ UNCHANGED <<ret, rv, tx, rx, status, data, data_read, page_address,
                 devVars, faults, idByte, miscompares, drvObs>>

\* for (page = 0; page < EEPROM_NUM_PAGES; page++) write_page(...)
MainWriteLoop ==
  /\ pc = "m_wloop"
  /\ IF MorePages(page)
     THEN pc' = "wp_begin" /\ ret' = "m_wnext" /\ UNCHANGED page
     ELSE pc' = "m_rloop" /\ page' = 0 /\ UNCHANGED ret
  /\ NoBus
  /\ UNCHANGED <<rv, spi_dev, exitCode, tx, rx, status, len, data, data_read,
                 page_address, devVars, faults, mainObs, drvObs>>

MainWriteNext ==
  /\ pc = "m_wnext"
  /\ page' = U16(page + 1)
  /\ pc' = "m_wloop"
  /\ NoBus
  /\ UNCHANGED <<ret, rv, spi_dev, exitCode, tx, rx, status, len, data,
                 data_read, page_address, devVars, faults, mainObs,
                 drvObs>>

\* for (page = 0; page < EEPROM_NUM_PAGES; page++) read_page(...)
MainReadLoop ==
  /\ pc = "m_rloop"
  /\ IF MorePages(page)
     THEN pc' = "rp" /\ ret' = "m_cmp"
     ELSE pc' = "m_dpd" /\ UNCHANGED ret
  /\ NoBus
  /\ UNCHANGED <<rv, spi_dev, exitCode, tx, rx, status, page, len, data,
                 data_read, page_address, devVars, faults, mainObs,
                 drvObs>>

\* the compare loop over data and data_read, and page++
MainCompare ==
  /\ pc = "m_cmp"
  /\ miscompares' = miscompares + Mismatches(data, data_read, len)
  /\ page' = U16(page + 1)
  /\ pc' = "m_rloop"
  /\ NoBus
  /\ UNCHANGED <<ret, rv, spi_dev, exitCode, tx, rx, status, len, data,
                 data_read, page_address, devVars, faults, idByte,
                 verifyByte, drvObs>>

\* "Test Complete": set_deep_power_down
MainPowerDown ==
  /\ pc = "m_dpd"
  /\ set_deep_power_down
  /\ pc' = "m_free"
  /\ UNCHANGED <<ret, rv, spi_dev, exitCode, rx, status, page, len, data,
                 data_read, page_address, faults, mainObs, drvObs>>

\* libsoc_spi_free and return EXIT_SUCCESS
MainFree ==
  /\ pc = "m_free"
  /\ libsoc_spi_free
  /\ exitCode' = CompletedStatus(miscompares > 0)
  /\ pc' = "done"
  /\ NoBus
  /\ UNCHANGED <<ret, rv, tx, rx, status, page, len, data, data_read,
                 page_address, devVars, faults, mainObs, drvObs>>

\* "Wrong Device": set_deep_power_down
MainWrongDevice ==
  /\ pc = "m_wrong"
  /\ set_deep_power_down
  /\ pc' = "m_wrong_free"
  /\ UNCHANGED <<ret, rv, spi_dev, exitCode, rx, status, page, len, data,
                 data_read, page_address, faults, mainObs, drvObs>>

\* libsoc_spi_free and return EXIT_FAILURE
MainWrongFree ==
  /\ pc = "m_wrong_free"
  /\ libsoc_spi_free
  /\ exitCode' = EXIT_FAILURE
  /\ pc' = "done"
  /\ NoBus
  /\ UNCHANGED <<ret, rv, tx, rx, status, page, len, data, data_read,
                 page_address, devVars, faults, mainObs, drvObs>>

(* ------------------------------------------------------------------ *)
(* Initial states                                                       *)
(* ------------------------------------------------------------------ *)
NoPages == [p \in {} |-> ErasedPage]
\* what the array may hold before the program runs
InitMems ==
  { ErasedMem,
    [c \in {UniformPage(0), AltData} |->
       IF c = AltData THEN DrvPages ELSE AllPages \ DrvPages] }
NoExit == 0 - 1
Unseen == 0 - 1

InitCommon ==
  /\ ret = "done" /\ rv = EXIT_SUCCESS /\ exitCode = NoExit
  /\ tx = ZeroBuf /\ rx = ZeroBuf /\ status = 0
  /\ page = 0 /\ len = 0 /\ data = ZeroData /\ data_read = ZeroData
  /\ page_address = 0
  /\ mem \in InitMems /\ wel = FALSE /\ busy = 0
  /\ wire = << >> /\ prevOp = NoOp /\ sentOps = {} /\ xfers = 0
  /\ latched = FALSE
  /\ polls = 0
  /\ slept = FALSE /\ gap = FALSE
  /\ frames = [op \in Commands |-> 0]
  /\ idByte = Unseen /\ verifyByte = Unseen /\ miscompares = 0
  /\ calls = 0 /\ lastCall = "none" /\ prevCall = "none"
  /\ memAtCall = ErasedMem /\ expect = NoPages

Init ==
  /\ InitCommon
  /\ pc = "m_init"
  /\ spi_dev = "none"
  /\ faults = MaxFaults

Next ==
  \/ MainInit \/ MainIdentify
  \/ EraseBegin \/ EraseSend \/ ErasePoll
  \/ MainVerify \/ ReadPage \/ MainVerifyCheck
  \/ MainWriteLoop \/ WriteBegin \/ WriteSend \/ WritePoll \/ MainWriteNext
  \/ MainReadLoop \/ MainCompare
  \/ MainPowerDown \/ MainFree
  \/ MainWrongDevice \/ MainWrongFree

Spec == Init /\ [][Next]_vars

(* ------------------------------------------------------------------ *)
(* The driver functions called directly, in any order                   *)
(* ------------------------------------------------------------------ *)
DrvData == {Pattern, AltData}
\* the first n bytes of a caller's buffer
Payload(d, n) == [k \in 1..n |-> d[k - 1]]

\* erase_device(spi_dev)
DrvErase ==
  /\ pc = "idle"
  /\ calls < MaxCalls
  /\ calls' = calls + 1
  /\ prevCall' = lastCall
  /\ lastCall' = "erase"
  /\ memAtCall' = mem
  /\ expect' = NoPages
  /\ pc' = "er_wren"
  /\ ret' = "idle"
  /\ NoBus
  /\ UNCHANGED <<rv, spi_dev, exitCode, tx, rx, status, page, len, data,
                 data_read, page_address, devVars, faults, mainObs>>

\* write_page(spi_dev, p, d, n)
DrvWrite ==
  /\ pc = "idle"
  /\ calls < MaxCalls
  /\ \E p \in DrvPages, d \in DrvData, n \in DrvWriteLens :
        /\ page' = p
        /\ data' = d
        /\ len' = n
        /\ expect' = IF n <= EEPROM_PAGE_SIZE
                     THEN [q \in DOMAIN expect \cup {p} |->
                             IF q = p THEN Payload(d, n) ELSE expect[q]]
                     ELSE expect
  /\ calls' = calls + 1
  /\ prevCall' = lastCall
  /\ lastCall' = "write"
  /\ memAtCall' = mem
  /\ pc' = "wp_begin"
  /\ ret' = "idle"
  /\ NoBus
  /\ UNCHANGED <<rv, spi_dev, exitCode, tx, rx, status, data_read,
                 page_address, devVars, faults, mainObs>>

\* read_page(spi_dev, p, data_read, n)
DrvRead ==
  /\ pc = "idle"
  /\ calls < MaxCalls
  /\ \E p \in DrvPages, n \in DrvReadLens :
        /\ page' = p
        /\ len' = n
  /\ calls' = calls + 1
  /\ prevCall' = lastCall
  /\ lastCall' = "read"
  /\ memAtCall' = mem
  /\ pc' = "rp"
  /\ ret' = "idle"
  /\ NoBus
  /\ UNCHANGED <<rv, spi_dev, exitCode, tx, rx, status, data, data_read,
                 page_address, devVars, faults, mainObs, expect>>

InitDrv ==
  /\ InitCommon
  /\ pc = "idle"
  /\ spi_dev = "open"
  /\ faults = 0

NextDrv ==
  \/ DrvErase \/ DrvWrite \/ DrvRead
  \/ EraseBegin \/ EraseSend \/ ErasePoll
  \/ WriteBegin \/ WriteSend \/ WritePoll
  \/ ReadPage

SpecDrv == InitDrv /\ [][NextDrv]_vars

\* a driver call that has started runs on: the program is one thread that
\* waits for nothing but the transfers it makes itself
FairSpecDrv ==
  /\ SpecDrv
  /\ WF_vars(EraseBegin \/ EraseSend \/ ErasePoll)
  /\ WF_vars(WriteBegin \/ WriteSend \/ WritePoll)
  /\ WF_vars(ReadPage)

(* ------------------------------------------------------------------ *)
(* The array indices of each step                                       *)
(* ------------------------------------------------------------------ *)
NoIdx == 0 - 1
\* the highest index of tx and rx the step at pc uses: the opcode byte, the
\* two bytes of a status read, the four of the signature read, or the last
\* byte of the frame of write_page and read_page
TopBufIndex ==
  CASE pc \in {"er_wren", "er_send", "m_dpd", "m_wrong"} -> 0
    [] pc = "wp_begin" -> IF TooLong(len) THEN NoIdx ELSE 0
    [] pc \in {"er_poll", "wp_poll"} -> 1
    [] pc = "m_rdid" -> 3
    [] pc = "wp_send" -> WriteLen(len) - 1
    [] pc = "rp" -> ReadLen(len) - 1
    [] OTHER -> NoIdx
\* the highest index of data and data_read the step at pc uses
TopDataIndex ==
  CASE pc = "m_init" -> EEPROM_PAGE_SIZE - 1
    [] pc = "m_vcheck" -> 0
    [] pc \in {"wp_send", "rp", "m_cmp"} -> len - 1
    [] OTHER -> NoIdx

(* ================================================================== *)
(* Properties                                                           *)
(* ================================================================== *)
Min(a, b) == IF a < b THEN a ELSE b
Opcode(f) == IF Len(f) = 0 THEN NoOp ELSE f[1]
AllPattern == [c \in {Pattern} |-> AllPages]

\* C1: a write_page call with len > 128 returns EXIT_FAILURE in one step that
\* makes no transport call and leaves the bus, the buffers and the device as
\* they were.
C1_TooLongRejected ==
  [][(pc = "wp_begin" /\ len > EEPROM_PAGE_SIZE) =>
       /\ pc' = ret
       /\ rv' = EXIT_FAILURE
       /\ xfers' = 0
       /\ UNCHANGED <<wire, prevOp, sentOps, polls, tx, rx, mem, wel, busy>>]_vars
C1_Witness ==
  /\ pc = "idle" /\ lastCall = "write" /\ len = EEPROM_PAGE_SIZE + 1
  /\ rv = EXIT_FAILURE /\ xfers = 0 /\ mem = memAtCall
  /\ WREN \notin sentOps /\ WRITE \notin sentOps

\* C2: once main has read a signature other than 0x29, no chip-erase and no
\* WRITE frame has been or will be sent, main is on its wrong-device path,
\* which always has a next step, and it ends with EXIT_FAILURE.
C2_WrongDeviceAborts ==
  (idByte # Unseen /\ idByte # EEPROM_DEVICE_ID) =>
     /\ CE \notin sentOps
     /\ WRITE \notin sentOps
     /\ pc \in {"m_wrong", "m_wrong_free", "done"}
     /\ (pc = "done" => exitCode = EXIT_FAILURE)
     /\ (pc # "done" => ENABLED Next)
C2_Witness ==
  /\ pc = "done" /\ idByte = 255 /\ exitCode = EXIT_FAILURE
  /\ sentOps = {RDID, DPD}

\* C3: whenever the last frame on the bus is a chip erase or a WRITE, the
\* frame before it was a write enable and the device's latch was set when
\* the frame arrived.
C3_WriteEnableFirst ==
  Opcode(wire) \in {CE, WRITE} => (prevOp = WREN /\ latched)
C3_Witness ==
  /\ pc = "wp_poll" /\ page = EEPROM_NUM_PAGES - 1
  /\ Opcode(wire) = WRITE /\ prevOp = WREN /\ latched /\ ~wel

\* C4: a busy-poll loop of erase_device or write_page that has started ends,
\* the call returns, and the status it leaves has bit 0 clear; the loop makes
\* at most one status read more than the device stays busy.
C4_BusyPollEnds ==
  /\ (pc \in {"er_poll", "wp_poll"}) ~> (pc = "idle" /\ status % 2 = 0)
  /\ []((pc = "idle" /\ lastCall \in {"erase", "write"}) =>
          (status % 2 = 0 /\ polls <= MaxBusyPolls + 1))
C4_Witness ==
  /\ pc = "idle" /\ lastCall = "erase"
  /\ polls = MaxBusyPolls + 1 /\ status % 2 = 0 /\ Opcode(wire) = RDSR

\* C5: when read_page(p, buf, n) returns and the last write or erase that
\* touched page p was a write_page of a payload of length <= 128, buf holds
\* that payload byte for byte, as far as both lengths go.
C5_RoundTrip ==
  (pc = "idle" /\ lastCall = "read" /\ page \in DOMAIN expect) =>
     \A i \in 0..(Min(len, Len(expect[page])) - 1) :
        data_read[i] = expect[page][i + 1]
C5_Witness ==
  /\ pc = "idle" /\ lastCall = "read" /\ prevCall = "write"
  /\ page = EEPROM_NUM_PAGES - 1 /\ page \in DOMAIN expect
  /\ len = EEPROM_PAGE_SIZE /\ Len(expect[page]) = EEPROM_PAGE_SIZE
  /\ data_read = AltData

\* C6: when erase_device has returned every address of the device holds
\* 0xFF, and if the call before it was an erase_device too the device is as
\* that call left it.
C6_EraseAllFF ==
  (pc = "idle" /\ lastCall = "erase") =>
     /\ \A p \in AllPages : \A c \in {DevPage(mem, p)} :
           \A o \in 0..(EEPROM_PAGE_SIZE - 1) : c[o] = 255
     /\ (prevCall = "erase" => (mem = memAtCall /\ ~wel /\ busy = 0))
C6_Witness ==
  /\ pc = "idle" /\ lastCall = "erase" /\ prevCall = "write"
  /\ memAtCall # ErasedMem /\ mem = ErasedMem

\* C7: the READ or WRITE frame main has just sent for page p carries the
\* address p * 128, high byte first; p * 128 + 128 fits the device and the
\* 16-bit parameter, and every other page starts at least 128 bytes away.
AddressedTo(f, p) ==
  /\ p * EEPROM_PAGE_SIZE + EEPROM_PAGE_SIZE <= EEPROM_SIZE
  /\ page_address = p * EEPROM_PAGE_SIZE
  /\ f[2] = (p * EEPROM_PAGE_SIZE) \div 256
  /\ f[3] = (p * EEPROM_PAGE_SIZE) % 256
  /\ \A q \in AllPages \ {p} :
        \/ PageOffset(q) + EEPROM_PAGE_SIZE <= PageOffset(p)
        \/ PageOffset(p) + EEPROM_PAGE_SIZE <= PageOffset(q)
C7_PageAddress ==
  /\ (pc = "wp_poll" /\ polls = 0) => (Opcode(wire) = WRITE /\ AddressedTo(wire, page))
  /\ (pc \in {"m_vcheck", "m_cmp"}) => (Opcode(wire) = READ /\ AddressedTo(wire, page))
C7_Witness ==
  /\ pc = "m_cmp" /\ page = EEPROM_NUM_PAGES - 1
  /\ Opcode(wire) = READ /\ wire[2] = 255 /\ wire[3] = 128

\* C8: against a device that answers 0x29 and a bus that corrupts nothing,
\* main finds the device erased, reads 0xFF at page 0 byte 0, leaves every
\* page holding the pattern, reads every page back equal to it, reports no
\* miscompare, always has a next step and ends with EXIT_SUCCESS.
C8_EndToEnd ==
  (idByte = EEPROM_DEVICE_ID /\ faults = MaxFaults) =>
     /\ (pc = "m_verify" => mem = ErasedMem)
     /\ (pc = "m_vcheck" => data_read[0] = 255)
     /\ (pc \in {"m_rloop", "m_cmp", "m_dpd", "m_free", "done"} => mem = AllPattern)
     /\ (pc = "m_cmp" => data_read = Pattern)
     /\ miscompares = 0
     /\ (pc = "done" => (exitCode = EXIT_SUCCESS /\ page = EEPROM_NUM_PAGES))
     /\ (pc # "done" => ENABLED Next)
C8_Witness ==
  /\ pc = "done" /\ idByte = EEPROM_DEVICE_ID /\ faults = MaxFaults
  /\ verifyByte = 255 /\ miscompares = 0 /\ exitCode = EXIT_SUCCESS
  /\ mem = AllPattern /\ data_read = Pattern

\* C9: when the signature was right and page 0, byte 0 read back after the
\* erase is not 0xFF, no WRITE frame has been or will be sent and main ends
\* at once with EXIT_FAILURE.
C9_EraseCheckFatal ==
  /\ (pc = "m_vcheck" /\ data_read[0] # 255) =>
        (WRITE \notin sentOps /\ ENABLED MainVerifyCheck)
  /\ (idByte = EEPROM_DEVICE_ID /\ verifyByte # Unseen /\ verifyByte # 255) =>
        (WRITE \notin sentOps /\ pc = "done" /\ exitCode = EXIT_FAILURE)
C9_Witness ==
  /\ pc = "done" /\ idByte = EEPROM_DEVICE_ID /\ verifyByte = 0
  /\ exitCode = EXIT_FAILURE /\ WRITE \notin sentOps

\* C10: when the signature and the erase check passed, main never stops
\* before the end whatever the readback delivers: it leaves the read loop
\* only after page 511, sends deep power-down and ends with EXIT_SUCCESS.
C10_MiscompareNotFatal ==
  (idByte = EEPROM_DEVICE_ID /\ verifyByte = 255) =>
     /\ pc \notin {"m_wrong", "m_wrong_free"}
     /\ (pc \in {"m_dpd", "m_free", "done"} => page = EEPROM_NUM_PAGES)
     /\ (pc \in {"m_free", "done"} => DPD \in sentOps)
     /\ (pc = "done" => exitCode = EXIT_SUCCESS)
     /\ (pc # "done" => ENABLED Next)
C10_Witness ==
  /\ pc = "done" /\ idByte = EEPROM_DEVICE_ID /\ verifyByte = 255
  /\ miscompares = MaxFaults /\ exitCode = EXIT_SUCCESS /\ DPD \in sentOps

\* C11 (as stated): of two status reads in a row, which are always two reads
\* of one busy-poll loop, the second comes after a delay.
C11_DelayBetweenPolls ==
  (Opcode(wire) = RDSR /\ prevOp = RDSR) => gap
\* C11 (amended): erase_device and write_page sleep the fixed delay once,
\* after their frame and before the first status read of the loop; a status
\* read that follows another status read follows it without a delay.
C11_DelayBeforeFirstPoll ==
  /\ (pc \in {"er_poll", "wp_poll"} /\ polls = 0) =>
        (Opcode(wire) \in {CE, WRITE} /\ slept)
  /\ Opcode(wire) = RDSR =>
        /\ prevOp \in {CE, WRITE, RDSR}
        /\ gap <=> prevOp \in {CE, WRITE}
C11_Witness ==
  /\ pc = "wp_poll" /\ polls = 2 /\ status % 2 = 1
  /\ Opcode(wire) = RDSR /\ prevOp = RDSR /\ ~gap

\* C12: the step after the write enable of an erase or an accepted write
\* sends the CE or WRITE frame and enters the poll loop; the frame after a
\* CE or WRITE frame is a status read; a step of the poll loop is one status
\* read that stays in the loop when bit 0 is set and returns when it is
\* clear, and then the device is no longer busy; no frame other than a
\* status read goes out while the device is busy.
C12_IssuePollDone ==
  [][/\ (pc \in {"er_send", "wp_send"}) =>
          (pc' \in {"er_poll", "wp_poll"} /\ Opcode(wire') \in {CE, WRITE})
     /\ (Opcode(wire) \in {CE, WRITE} /\ xfers' = 1) => Opcode(wire') = RDSR
     /\ (pc \in {"er_poll", "wp_poll"}) =>
          /\ xfers' = 1 /\ Opcode(wire') = RDSR
          /\ pc' = IF status' % 2 = 1 THEN pc ELSE ret
          /\ (pc' = ret => busy' = 0)
     /\ (xfers' = 1 /\ Opcode(wire') # RDSR) => busy = 0]_vars
C12_Witness ==
  /\ pc = "m_wnext" /\ page = 1 /\ Opcode(wire) = RDSR
  /\ polls = MaxBusyPolls + 1 /\ status % 2 = 0 /\ busy = 0

\* C13: the commands main sends come in one order.  The k-th WRITE frame is a
\* full page for page k-1 and comes after the identify, the erase and the
\* one-byte read of page 0; the first READ frame is that one-byte read and
\* comes before any WRITE; the k-th full-page READ is for page k-1 and comes
\* when all 512 WRITE frames have gone out and the device is idle again; deep
\* power-down comes last, and a run that passed both checks ends having sent
\* 1 identify, 1 erase, 512 writes, 513 reads and 1 deep power-down.
WholeSequence ==
  [op \in Commands |->
     IF op = WRITE THEN EEPROM_NUM_PAGES
     ELSE IF op = READ THEN EEPROM_NUM_PAGES + 1
     ELSE 1]
C13_FrameOrder ==
  /\ frames[RDID] <= 1 /\ frames[CE] <= 1 /\ frames[DPD] <= 1
  /\ Opcode(wire) = RDID =>
        frames = [op \in Commands |-> IF op = RDID THEN 1 ELSE 0]
  /\ Opcode(wire) = CE =>
        frames = [op \in Commands |-> IF op \in {RDID, CE} THEN 1 ELSE 0]
  /\ Opcode(wire) = WRITE =>
        /\ frames[RDID] = 1 /\ frames[CE] = 1 /\ frames[READ] = 1
        /\ frames[DPD] = 0 /\ frames[WRITE] <= EEPROM_NUM_PAGES
        /\ Len(wire) = EEPROM_PAGE_SIZE + 3
        /\ FrameAddr(wire) = (frames[WRITE] - 1) * EEPROM_PAGE_SIZE
  /\ Opcode(wire) = READ =>
        /\ frames[RDID] = 1 /\ frames[CE] = 1 /\ frames[DPD] = 0
        /\ IF frames[READ] = 1
           THEN Len(wire) = 4 /\ FrameAddr(wire) = 0 /\ frames[WRITE] = 0
           ELSE /\ Len(wire) = EEPROM_PAGE_SIZE + 3
                /\ frames[WRITE] = EEPROM_NUM_PAGES /\ busy = 0
                /\ frames[READ] <= EEPROM_NUM_PAGES + 1
                /\ FrameAddr(wire) = (frames[READ] - 2) * EEPROM_PAGE_SIZE
  /\ (Opcode(wire) = DPD /\ idByte = EEPROM_DEVICE_ID) => frames = WholeSequence
  /\ (pc = "done" /\ idByte = EEPROM_DEVICE_ID /\ verifyByte = 255) =>
        (frames = WholeSequence /\ Opcode(wire) = DPD)
C13_Witness ==
  /\ pc = "done" /\ idByte = EEPROM_DEVICE_ID /\ verifyByte = 255
  /\ Opcode(wire) = DPD /\ frames = WholeSequence

\* C14: an accepted write_page(p, d, n) sends the write enable, then, in one
\* step and nowhere else, one frame that is exactly 0x02, the high and the
\* low byte of p * 128 and d[0..n-1], n + 3 bytes in all, whatever an earlier
\* call left in the transmit buffer; the rest of the call sends status reads
\* only.
C14_WriteFrame ==
  [][/\ (pc = "wp_begin" /\ len <= EEPROM_PAGE_SIZE) =>
          (pc' = "wp_send" /\ xfers' = 1 /\ wire' = <<WREN>>)
     /\ (pc = "wp_send") =>
          /\ pc' = "wp_poll" /\ xfers' = 1
          /\ frames'[WRITE] = frames[WRITE] + 1
          /\ wire' = <<WRITE, (page * EEPROM_PAGE_SIZE) \div 256,
                       (page * EEPROM_PAGE_SIZE) % 256>> \o Payload(data, len)
     /\ (pc # "wp_send") => frames'[WRITE] = frames[WRITE]
     /\ (pc = "wp_poll") => (xfers' = 1 /\ Opcode(wire') = RDSR)]_vars
C14_Witness ==
  /\ pc = "wp_poll" /\ polls = 0 /\ prevCall = "write" /\ prevOp = WREN
  /\ page = EEPROM_NUM_PAGES - 1 /\ len = 1 /\ data = Pattern
  /\ wire = <<WRITE, 255, 128, 0>> /\ tx[4] = AltData[1]

\* C15: read_page(p, buf, n) is one step with one transport call: a frame of
\* n + 3 bytes that starts with 0x03 and the address of page p.  It sends no
\* write enable and no status read, and leaves the device's array, its busy
\* time and its write-enable latch as they were.
C15_ReadOnly ==
  [][(pc = "rp") =>
       /\ pc' = ret /\ xfers' = 1
       /\ Len(wire') = len + 3
       /\ wire'[1] = READ
       /\ FrameAddr(wire') = page * EEPROM_PAGE_SIZE
       /\ frames' = [frames EXCEPT ![READ] = @ + 1]
       /\ polls' = 0
       /\ sentOps' = sentOps \cup {READ}
       /\ UNCHANGED <<mem, wel, busy>>]_vars
C15_Witness ==
  /\ pc = "idle" /\ lastCall = "read" /\ prevCall = "write"
  /\ Opcode(wire) = READ /\ Len(wire) = EEPROM_PAGE_SIZE + 3
  /\ wel /\ busy = 0 /\ mem = memAtCall /\ mem # ErasedMem

\* C16: while main holds an open handle it has a next step; a transport call
\* is made only on an open handle and leaves it open; main reaches its
\* return either with the handle it never got or in the step that releases
\* the open handle; and once the handle is released main takes no further
\* step, so there is no second release and no transport call after it.
C16_HandleReleasedOnce ==
  /\ []((spi_dev = "open") => ENABLED Next)
  /\ [][/\ (xfers' = 1) => (spi_dev = "open" /\ spi_dev' = "open")
        /\ (pc' = "done") =>
             \/ (spi_dev = "none" /\ spi_dev' = "null")
             \/ (spi_dev = "open" /\ spi_dev' = "freed")
        /\ (spi_dev' # spi_dev /\ spi_dev = "open") =>
             (spi_dev' = "freed" /\ pc' = "done")
        /\ (spi_dev \in {"freed", "null"}) => UNCHANGED vars]_vars
C16_Witness ==
  /\ pc = "done" /\ spi_dev = "freed" /\ exitCode = EXIT_FAILURE
  /\ idByte = EEPROM_DEVICE_ID /\ verifyByte # 255 /\ DPD \notin sentOps

\* C17: in a run of main the step about to be taken uses no index of tx and
\* rx beyond 130 and no index of data and data_read beyond 127; the frames of
\* write_page and read_page with len = 128 use index 130, the last one.
C17_IndicesInBounds ==
  /\ TopBufIndex < BufLen
  /\ TopDataIndex < EEPROM_PAGE_SIZE
  /\ DOMAIN tx = 0..(EEPROM_PAGE_SIZE + 2) /\ DOMAIN rx = DOMAIN tx
  /\ DOMAIN data = 0..(EEPROM_PAGE_SIZE - 1) /\ DOMAIN data_read = DOMAIN data
  /\ (pc \in {"wp_send", "rp"} /\ len = EEPROM_PAGE_SIZE) =>
        TopBufIndex = BufLen - 1
C17_Witness ==
  /\ pc = "rp" /\ page = EEPROM_NUM_PAGES - 1 /\ len = EEPROM_PAGE_SIZE
  /\ TopBufIndex = EEPROM_PAGE_SIZE + 2 /\ TopDataIndex = EEPROM_PAGE_SIZE - 1

====
